---- MODULE Spec2Model ----
(***************************************************************************)
(* The attempt engine (services/attemptService.js) and the exam lifecycle  *)
(* (services/examService.js) of the exam platform over their Prisma store: *)
(* the exam row with its exam_questions and assignment rows, the           *)
(* exam_attempts rows, the student_answers rows, the exam_submitted        *)
(* entries of the activity log, and the exam-detail entry of the Redis     *)
(* cache.  Every request is a handler that runs from one await to the next;*)
(* each step below is the code between two awaits, so that handlers of     *)
(* different requests interleave exactly at the store calls.               *)
(*                                                                         *)
(* Optional columns (NULL in the schema) are <<>> when unset and <<v>>     *)
(* when set.  Percentages are kept in hundredths of a percent, the two     *)
(* decimals calculatePercentage rounds to (8999 is 89.99).  Time is in     *)
(* minutes.                                                                *)
(***************************************************************************)
EXTENDS Integers, Sequences, FiniteSets, TLC

\* ----------------------------------------------------------------- bounds
\* the clock runs from 0 to MaxTime
MaxTime == 2
\* requests the clients issue in one run
MaxRequests == 3
\* request handlers in flight at the same time
MaxConcurrent == 2
\* the percentages calculateGrade is called on run from -MaxPercentage to
\* 2 * MaxPercentage hundredths
MaxPercentage == 10000

VARIABLES
  exam,        \* the exams row of the one exam
  questions,   \* the questions table: id -> question with its options
  attempts,    \* the exam_attempts table: a sequence, the id is the index
  answers,     \* the student_answers table: <<attemptId, questionId>> -> row
  submitLog,   \* attemptId -> number of exam_submitted activity-log entries
  now,         \* the clock (new Date())
  req,         \* the request handlers: slot -> handler state
  issued,      \* requests issued so far
  handlers,    \* number of handlers the server runs at the same time
  cache,       \* the Redis entry exam:<id>: unset, or the view stored
  attemptCache, \* the Redis entries attempt:<studentId>:<id>: student -> attempt
  users,       \* the users table: the students, id -> row
  gradeIn,     \* input of a stand-alone calculateGrade call
  gradeOut     \* its result

vars == <<exam, questions, attempts, answers, submitLog, now, req, issued,
          handlers, cache, attemptCache, users, gradeIn, gradeOut>>

store == <<exam, questions, attempts, answers, submitLog>>

Slots == 1..MaxConcurrent

StudentId == "s1"

Null == <<>>

Range(seq) == {seq[i] : i \in DOMAIN seq}

Some(v) == <<v>>

\* ------------------------------------------------------------- the schema
\* exam_attempts.status
Active == {"started", "in_progress"}

Finalized == {"submitted", "auto_submitted"}

\* a choice question with options a and b, a being the correct one
McqQuestion(id, negativeMarks) ==
  [id |-> id, questionType |-> "mcq",
   options |-> << [id |-> "a", isCorrect |-> TRUE],
                  [id |-> "b", isCorrect |-> FALSE] >>,
   correctAnswer |-> Null, marks |-> 5, negativeMarks |-> negativeMarks]

\* a JSON value as a pair of its type and its text
Json(type, text) == <<type, text>>

\* selectedAnswer of the body of a saveAnswer request: absent, an option id,
\* or one of the JSON values "", 0 and false
BodyValues ==
  {Null, Some(Json("string", "a")), Some(Json("string", "b")),
   Some(Json("string", "")), Some(Json("number", "0")),
   Some(Json("boolean", "false"))}

\* the values JavaScript takes for false in a || b
Falsy == {Json("string", ""), Json("number", "0"), Json("boolean", "false")}

\* the answer the controller passes on, selectedOptionId || selectedAnswer ||
\* textAnswer of a body with selectedAnswer only: the value when it is not
\* falsy, else textAnswer, which is undefined (here Null)
ControllerAnswer(body) ==
  IF body = Null \/ body[1] \in Falsy THEN Null ELSE Some(body[1][2])

\* a handler that is not running
\* a request body that sets none of the exam columns the model follows
NoData ==
  [title |-> Null, status |-> Null, totalMarks |-> Null, sectionIds |-> Null,
   departmentIds |-> Null, studentIds |-> Null, assignmentMode |-> Null]

Idle ==
  [op |-> "none", pc |-> "idle", attemptId |-> 0, questionId |-> "-",
   answer |-> Null, isMarked |-> FALSE, status |-> "-", attemptCount |-> 0,
   answersRead |-> <<>>, totalScore |-> 0, correctAnswers |-> 0,
   wrongAnswers |-> 0, skipped |-> 0, resp |-> "-",
   exam |-> Null, issuedOn |-> "-", issuedExpired |-> FALSE,
   rowAtIssue |-> Null, data |-> NoData, questionIds |-> <<>>,
   totalMarks |-> 0, examAtIssue |-> Null, cacheAtIssue |-> Null,
   studentId |-> StudentId, presented |-> <<>>, body |-> Null,
   timeRemaining |-> 0]

InFlight(r) == req[r].pc \notin {"idle", "done"}

\* ---------------------------------------------------------- pure helpers
\* helpers.calculatePercentage: Math.round((value / total) * 10000) / 100,
\* in hundredths; Math.round rounds halves up, floor(x + 1/2)
calculatePercentage(value, total) ==
  IF total = 0 THEN 0 ELSE (2 * value * 10000 + total) \div (2 * total)

\* calculateGrade with its D band starting at 40
calculateGradeLowD(percentage) ==
  IF percentage >= 9000 THEN "A+"
  ELSE IF percentage >= 8000 THEN "A"
  ELSE IF percentage >= 7000 THEN "B"
  ELSE IF percentage >= 6000 THEN "C"
  ELSE IF percentage >= 4000 THEN "D"
  ELSE "F"

\* AttemptService.calculateGrade
calculateGrade(percentage) ==
  IF percentage >= 9000 THEN "A+"
  ELSE IF percentage >= 8000 THEN "A"
  ELSE IF percentage >= 7000 THEN "B"
  ELSE IF percentage >= 6000 THEN "C"
  ELSE IF percentage >= 5000 THEN "D"
  ELSE "F"

\* a multi-select question with options a, b and c, those of the set
\* correct being flagged correct
MultiQuestion(id, correct) ==
  [id |-> id, questionType |-> "multiple_select",
   options |-> [i \in 1..3 |->
                  [id |-> <<"a", "b", "c">>[i],
                   isCorrect |-> <<"a", "b", "c">>[i] \in correct]],
   correctAnswer |-> Null, marks |-> 5, negativeMarks |-> 0]

\* a selectedAnswer sent for a multi-select question: an array of ids, or a
\* value that is no array
Selection(isArray, ids) == [isArray |-> isArray, ids |-> ids]

\* selectedIds.length === correctIds.length &&
\* selectedIds.every((id) => correctIds.includes(id))
SameLengthAndIncluded(selectedIds, correctIds) ==
  /\ Len(selectedIds) = Len(correctIds)
  /\ \A i \in DOMAIN selectedIds : selectedIds[i] \in Range(correctIds)

\* AttemptService.checkAnswer.  The choice types (mcq, multiple_choice,
\* true_false): the first option flagged correct is compared by id; without
\* options the answer is compared with question.correctAnswer.  The types
\* multiple and multiple_select: an array is compared with the ids of the
\* options flagged correct, or without options with question.correctAnswer,
\* by length and inclusion
checkAnswer(question, selectedAnswer) ==
  IF question.questionType \in {"mcq", "multiple_choice", "true_false"}
  THEN LET opts == question.options
           correct == {i \in 1..Len(opts) : opts[i].isCorrect}
       IN IF correct # {}
          THEN LET first == CHOOSE i \in correct : \A j \in correct : i <= j
               IN selectedAnswer = Some(opts[first].id)
          ELSE selectedAnswer = question.correctAnswer
  ELSE IF question.questionType \in {"multiple", "multiple_select"}
  THEN LET opts == question.options
           flagged == SelectSeq(opts, LAMBDA opt : opt.isCorrect)
           correctOptionIds == [i \in DOMAIN flagged |-> flagged[i].id]
       IN IF selectedAnswer = Null \/ ~selectedAnswer[1].isArray THEN FALSE
          ELSE IF Len(opts) > 0
          THEN SameLengthAndIncluded(selectedAnswer[1].ids, correctOptionIds)
          ELSE IF question.correctAnswer = Null
                  \/ ~question.correctAnswer[1].isArray
          THEN FALSE
          ELSE SameLengthAndIncluded(selectedAnswer[1].ids,
                                     question.correctAnswer[1].ids)
  ELSE FALSE

\* endTime = startedAt + exam.durationMinutes
EndTime(attempt) == attempt.startedAt + exam.durationMinutes

\* new Date() > endTime
Expired(attempt) == now > EndTime(attempt)

Max(a, b) == IF a >= b THEN a ELSE b

\* prisma.examAttempt.count({ where: { examId, studentId } })
AttemptCount(studentId) ==
  Cardinality({a \in DOMAIN attempts : attempts[a].studentId = studentId})

\* prisma.examAttempt.findFirst({ ..., status: { in: [started, in_progress] } })
ActiveAttempts(studentId) ==
  {a \in DOMAIN attempts :
     attempts[a].studentId = studentId /\ attempts[a].status \in Active}

\* the ids of the questions table, in the order findMany returns rows
QuestionIds == <<"q1", "q2">>

\* prisma.studentAnswer.findMany({ where: { attemptId }, include question }):
\* the rows of the attempt as read at that moment
AnswersOf(attemptId) ==
  LET has(q) == <<attemptId, q>> \in DOMAIN answers
      rows == SelectSeq(QuestionIds, has)
  IN [i \in 1..Len(rows) |->
        [questionId |-> rows[i],
         selectedAnswer |-> answers[<<attemptId, rows[i]>>].selectedAnswer,
         isAnswered |-> answers[<<attemptId, rows[i]>>].isAnswered]]

\* a student_answers row as startAttempt's createMany writes it
NewAnswer ==
  [selectedAnswer |-> Null, isAnswered |-> FALSE, isCorrect |-> Null,
   marksAwarded |-> 0, isMarkedForReview |-> FALSE]

\* an exam_attempts row as startAttempt creates it; presented is no column:
\* it records the question order startAttempt returned for the attempt
NewAttempt(studentId, attemptNumber, maxScore) ==
  [studentId |-> studentId, attemptNumber |-> attemptNumber,
   status |-> "started", startedAt |-> now, maxScore |-> maxScore,
   totalScore |-> 0, percentage |-> Null, correctAnswers |-> 0,
   wrongAnswers |-> 0, skipped |-> 0, grade |-> Null, passed |-> Null,
   presented |-> <<>>]

\* a users row of a student: section, department and institution, and
\* whether a student_enrollments row enrols the student in the exam's course
Student(sectionId, departmentId, institutionId, enrolled) ==
  [role |-> "student", sectionId |-> sectionId, departmentId |-> departmentId,
   institutionId |-> institutionId, enrolled |-> enrolled]

\* the student of section sec1, department dep1 and institution i1
OneStudent ==
  StudentId :> Student(Some("sec1"), Some("dep1"), Some("i1"), TRUE)

\* the educator who created the exam and sends the requests of ExamService
Educator == "edu"

\* the users rows of the educators: edu of institution i1, edu2 of
\* institution i2 and edu0 of no institution
Educators ==
  ("edu" :> [role |-> "educator", institutionId |-> Some("i1")])
  @@ ("edu2" :> [role |-> "educator", institutionId |-> Some("i2")])
  @@ ("edu0" :> [role |-> "educator", institutionId |-> Null])

\* ------------------------------------------------------------------ Init
\* The store holds one published exam of two questions of 5 marks, assigned
\* to one section, without time window, course or shuffling, and no attempt
\* yet.  The exam record carries its exam_questions rows (questions) and its
\* exam_sections, exam_departments and exam_students rows (sections,
\* departments, students); exists is false once the row is deleted.
InitExam(maxAttempts, negativeMarking) ==
  [exists |-> TRUE, title |-> "t1",
   status |-> "published", durationMinutes |-> 1, totalMarks |-> 10,
   passingPercentage |-> 40, negativeMarking |-> negativeMarking,
   negativeMarkValue |-> 2, maxAttempts |-> maxAttempts,
   questions |-> <<"q1", "q2">>, sections |-> {"sec1"},
   departments |-> {}, students |-> {}, assignmentMode |-> "section",
   institutionId |-> Some("i1"), courseId |-> Null,
   startTime |-> Null, endTime |-> Null, shuffleQuestions |-> FALSE]

InitStore ==
  /\ attempts = <<>>
  /\ answers = <<>>
  /\ submitLog = <<>>
  /\ now = 0
  /\ req = [r \in Slots |-> Idle]
  /\ issued = 0
  /\ cache = Null
  /\ attemptCache = <<>>
  /\ users = OneStudent
  /\ gradeIn = 0
  /\ gradeOut = "-"

\* the server as it runs: handlers of several requests interleave
Init ==
  /\ InitStore
  /\ handlers = MaxConcurrent
  /\ \E n \in {1, 2} : exam = InitExam(n, TRUE)
  /\ questions = [q \in {"q1", "q2"} |-> McqQuestion(q, 0)]

\* ------------------------------------------------------------- requests
\* A client issues a request: the handler takes the first free slot.  The
\* fields issuedOn, issuedExpired and rowAtIssue record what the store held
\* when the request was issued; no handler reads them.
CanIssue(r) ==
  /\ r <= handlers
  /\ issued < MaxRequests
  /\ ~InFlight(r)
  /\ \A k \in Slots : k < r => InFlight(k)

Issue(r, op, pc, attemptId, questionId, answer, isMarked) ==
  /\ CanIssue(r)
  /\ issued' = issued + 1
  /\ req' = [req EXCEPT ![r] =
       [Idle EXCEPT !.op = op, !.pc = pc, !.attemptId = attemptId,
          !.questionId = questionId, !.answer = answer, !.isMarked = isMarked,
          !.issuedOn = IF attemptId \in DOMAIN attempts
                       THEN attempts[attemptId].status ELSE "-",
          !.issuedExpired = attemptId \in DOMAIN attempts
                            /\ Expired(attempts[attemptId]),
          !.rowAtIssue = IF <<attemptId, questionId>> \in DOMAIN answers
                         THEN Some(answers[<<attemptId, questionId>>])
                         ELSE Null]]
  /\ UNCHANGED <<store, now, handlers, cache, attemptCache, users, gradeIn,
                 gradeOut>>

\* the handler returns or throws: only the request, its response and the
\* status it returned are kept
FinishRow(r, resp, status) ==
  [Idle EXCEPT !.op = req[r].op, !.pc = "done", !.resp = resp,
     !.status = status, !.attemptId = req[r].attemptId,
     !.questionId = req[r].questionId, !.answer = req[r].answer,
     !.issuedOn = req[r].issuedOn, !.issuedExpired = req[r].issuedExpired,
     !.rowAtIssue = req[r].rowAtIssue, !.data = req[r].data,
     !.questionIds = req[r].questionIds,
     !.examAtIssue = req[r].examAtIssue,
     !.cacheAtIssue = req[r].cacheAtIssue,
     !.studentId = req[r].studentId, !.presented = req[r].presented,
     !.body = req[r].body]

Finish(r, resp, status) == req' = [req EXCEPT ![r] = FinishRow(r, resp, status)]

Goto(r, pc) == req' = [req EXCEPT ![r].pc = pc]

Frame ==
  UNCHANGED <<now, issued, handlers, cache, attemptCache, users, gradeIn,
              gradeOut>>

\* -------------------------------------------------------- startAttempt
\* POST /exams/:examId/start of any student of the users table
IssueStartAttempt(r) ==
  \E s \in DOMAIN users :
    /\ CanIssue(r)
    /\ issued' = issued + 1
    /\ req' = [req EXCEPT ![r] =
         [Idle EXCEPT !.op = "startAttempt", !.pc = "start_exam",
            !.studentId = s, !.examAtIssue = Some(exam)]]
    /\ UNCHANGED <<store, now, handlers, cache, attemptCache, users, gradeIn,
                   gradeOut>>

\* lines 27-65: the exam is read; a missing exam is NotFound; a status other
\* than published and active, a startTime not reached and an endTime passed
\* are BadRequest; for an exam of a course, a student without enrollment
\* (the student_enrollments table does not change) is Forbidden
StartReadExam(r) ==
  /\ req[r].pc = "start_exam"
  /\ IF ~exam.exists THEN Finish(r, "NotFound", "-")
     ELSE IF exam.status # "published" /\ exam.status # "active"
     THEN Finish(r, "BadRequest", "-")
     ELSE IF exam.startTime # Null /\ exam.startTime[1] > now
     THEN Finish(r, "BadRequest", "-")
     ELSE IF exam.endTime # Null /\ exam.endTime[1] < now
     THEN Finish(r, "BadRequest", "-")
     ELSE IF exam.courseId # Null /\ ~users[req[r].studentId].enrolled
     THEN Finish(r, "Forbidden", "-")
     ELSE req' = [req EXCEPT ![r].pc = "start_count", ![r].exam = Some(exam)]
  /\ UNCHANGED store /\ Frame

\* lines 67-73: the attempts of the student are counted
StartCount(r) ==
  /\ req[r].pc = "start_count"
  /\ LET attemptCount == AttemptCount(req[r].studentId)
     IN IF attemptCount >= req[r].exam[1].maxAttempts
        THEN Finish(r, "BadRequest", "-")
        ELSE req' = [req EXCEPT ![r].pc = "start_active",
                                ![r].attemptCount = attemptCount]
  /\ UNCHANGED store /\ Frame

\* the attempt row inserted before the active attempt is looked for
StartFindActiveLate(r) ==
  /\ req[r].pc = "start_active"
  /\ IF ActiveAttempts(req[r].studentId) # {}
     THEN /\ attempts' = Append(attempts,
               NewAttempt(req[r].studentId, req[r].attemptCount + 1,
                          req[r].exam[1].totalMarks))
          /\ submitLog' = Append(submitLog, 0)
          /\ Finish(r, "BadRequest", "-")
     ELSE Goto(r, "start_create") /\ UNCHANGED <<attempts, submitLog>>
  /\ UNCHANGED <<exam, questions, answers>> /\ Frame

\* lines 75-81: an attempt in started or in_progress refuses the request
StartFindActive(r) ==
  /\ req[r].pc = "start_active"
  /\ IF ActiveAttempts(req[r].studentId) # {}
     THEN Finish(r, "BadRequest", "-")
     ELSE Goto(r, "start_create")
  /\ UNCHANGED store /\ Frame

\* lines 83-93: the attempt row is created
StartCreate(r) ==
  /\ req[r].pc = "start_create"
  /\ attempts' = Append(attempts,
       NewAttempt(req[r].studentId, req[r].attemptCount + 1,
                  req[r].exam[1].totalMarks))
  /\ submitLog' = Append(submitLog, 0)
  /\ req' = [req EXCEPT ![r].pc = "start_answers",
                        ![r].attemptId = Len(attempts) + 1]
  /\ UNCHANGED <<exam, questions, answers>> /\ Frame

\* the orders questions.sort(() => Math.random() - 0.5) can leave a list in:
\* its permutations
Shuffles(seq) ==
  {p \in [DOMAIN seq -> Range(seq)] : \A q \in Range(seq) : \E i \in DOMAIN p : p[i] = q}

\* the answer rows created for all questions but the last
StartCreateAnswersButLast(r) ==
  /\ req[r].pc = "start_answers"
  /\ LET qs == req[r].exam[1].questions
         new == {<<req[r].attemptId, qs[i]>> : i \in 1..(Len(qs) - 1)}
     IN /\ answers' = [k \in new \ DOMAIN answers |-> NewAnswer] @@ answers
        /\ \E order \in (IF req[r].exam[1].shuffleQuestions
                          THEN Shuffles(qs) ELSE {qs}) :
             /\ req' = [req EXCEPT ![r].pc = "start_activate",
                                   ![r].presented = order]
             /\ attempts' = [attempts EXCEPT ![req[r].attemptId].presented = order]
  /\ UNCHANGED <<exam, questions, submitLog>> /\ Frame

\* lines 95-109: the questions of the exam as read are shuffled when
\* exam.shuffleQuestions is set, and one answer row per question is created;
\* the order is the one the response presents (lines 131-162)
StartCreateAnswers(r) ==
  /\ req[r].pc = "start_answers"
  /\ LET qs == req[r].exam[1].questions
         new == {<<req[r].attemptId, qs[i]>> : i \in 1..Len(qs)}
     IN /\ answers' = [k \in new \ DOMAIN answers |-> NewAnswer] @@ answers
        /\ \E order \in (IF req[r].exam[1].shuffleQuestions
                          THEN Shuffles(qs) ELSE {qs}) :
             /\ req' = [req EXCEPT ![r].pc = "start_activate",
                                   ![r].presented = order]
             /\ attempts' = [attempts EXCEPT ![req[r].attemptId].presented = order]
  /\ UNCHANGED <<exam, questions, submitLog>> /\ Frame

\* lines 111-163: the first attempt of the student flips a published exam
\* to active; the attempt is cached under attempt:<studentId>:<examId> (a key
\* no handler reads) and the session is returned
StartActivate(r) ==
  /\ req[r].pc = "start_activate"
  /\ exam' = IF req[r].attemptCount = 0 /\ exam.exists
                  /\ exam.status = "published"
             THEN [exam EXCEPT !.status = "active"] ELSE exam
  /\ attemptCache' = (req[r].studentId :> req[r].attemptId) @@ attemptCache
  /\ Finish(r, "ok", "started")
  /\ UNCHANGED <<questions, attempts, answers, submitLog>>
  /\ UNCHANGED <<now, issued, handlers, cache, users, gradeIn, gradeOut>>

\* ------------------------------------------------------------ finalize
\* submitAttempt, and the auto-submit of saveAnswer and resumeAttempt, run
\* finalizeAttempt(attemptId, submitType) inside their handler.

\* submitAttempt passes submitted (line 239), autoSubmitAttempt passes
\* auto_submitted (lines 245-247)
SubmitType(op) == IF op = "submitAttempt" THEN "submitted" ELSE "auto_submitted"

\* lines 253-258: the attempt is read again; a status outside started and
\* in_progress throws BadRequest (Attempt already submitted)
FinalizeRead(r) ==
  /\ req[r].pc = "fz_read"
  /\ IF attempts[req[r].attemptId].status \notin Active
     THEN Finish(r, "BadRequest", "-")
     ELSE Goto(r, "fz_load")
  /\ UNCHANGED store /\ Frame

\* lines 260-269: the exam and the answer rows are read, the counters start
FinalizeLoad(r) ==
  /\ req[r].pc = "fz_load"
  /\ req' = [req EXCEPT ![r].pc = "fz_grade",
                        ![r].exam = Some(exam),
                        ![r].answersRead = AnswersOf(req[r].attemptId),
                        ![r].totalScore = 0, ![r].correctAnswers = 0,
                        ![r].wrongAnswers = 0, ![r].skipped = 0]
  /\ UNCHANGED store /\ Frame

\* every correct answer counted as one mark
MarksValueOne(question) == 1

\* marks of a correct answer: question.marks when positive, else 1
MarksValue(question) == IF question.marks > 0 THEN question.marks ELSE 1

\* marks of a wrong answer under negative marking:
\* -(question.negativeMarks || exam.negativeMarkValue || 0)
NegativeValue(question, ex) ==
  IF question.negativeMarks # 0 THEN question.negativeMarks
  ELSE ex.negativeMarkValue

\* lines 271-303, one turn of the loop: the next answer row read is graded
\* and its isCorrect and marksAwarded are written
FinalizeGrade(r) ==
  /\ req[r].pc = "fz_grade"
  /\ req[r].answersRead # <<>>
  /\ LET answer == Head(req[r].answersRead)
         key == <<req[r].attemptId, answer.questionId>>
         question == questions[answer.questionId]
         ex == req[r].exam[1]
         blank == ~answer.isAnswered \/ answer.selectedAnswer = Null
         isCorrect == ~blank /\ checkAnswer(question, answer.selectedAnswer)
         marksAwarded ==
           IF blank THEN 0
           ELSE IF isCorrect THEN MarksValue(question)
           ELSE IF ex.negativeMarking THEN 0 - NegativeValue(question, ex)
           ELSE 0
     IN /\ answers' = [answers EXCEPT ![key].isCorrect = Some(isCorrect),
                                      ![key].marksAwarded = marksAwarded]
        /\ req' = [req EXCEPT
             ![r].answersRead = Tail(req[r].answersRead),
             ![r].totalScore = req[r].totalScore + marksAwarded,
             ![r].skipped = req[r].skipped + (IF blank THEN 1 ELSE 0),
             ![r].correctAnswers =
                req[r].correctAnswers + (IF isCorrect THEN 1 ELSE 0),
             ![r].wrongAnswers =
                req[r].wrongAnswers + (IF ~blank /\ ~isCorrect THEN 1 ELSE 0)]
  /\ UNCHANGED <<exam, questions, attempts, submitLog>> /\ Frame

\* the row of finalizeAttempt without Math.max(0, totalScore)
FinalRowNoFloor(attempt, ex, submitType, totalScore, correct, wrong, skipped) ==
  LET percentage == calculatePercentage(totalScore, ex.totalMarks)
  IN [attempt EXCEPT
        !.status = IF submitType = "auto_submitted"
                   THEN "auto_submitted" ELSE "submitted",
        !.totalScore = totalScore,
        !.percentage = Some(percentage),
        !.correctAnswers = correct, !.wrongAnswers = wrong,
        !.skipped = skipped,
        !.grade = Some(calculateGrade(percentage)),
        !.passed = Some(percentage >= ex.passingPercentage * 100)]

\* the exam_attempts row finalizeAttempt writes (lines 305-324): the
\* percentage is computed from the score as summed up, the score stored is
\* floored at zero
FinalRow(attempt, ex, submitType, totalScore, correct, wrong, skipped) ==
  LET percentage == calculatePercentage(totalScore, ex.totalMarks)
  IN [attempt EXCEPT
        !.status = IF submitType = "auto_submitted"
                   THEN "auto_submitted" ELSE "submitted",
        !.totalScore = Max(0, totalScore),
        !.percentage = Some(percentage),
        !.correctAnswers = correct, !.wrongAnswers = wrong,
        !.skipped = skipped,
        !.grade = Some(calculateGrade(percentage)),
        !.passed = Some(percentage >= ex.passingPercentage * 100)]

\* lines 305-349: percentage, passed and grade are computed from the score
\* summed up, the attempt row is written whatever its status is by now, the
\* attempt:<studentId>:<examId> cache entry is deleted, the exam_submitted
\* entry is logged; submitAttempt returns the result, while
\* saveAnswer and resumeAttempt throw BadRequest (Time expired)
FinalizeWrite(r) ==
  /\ req[r].pc = "fz_grade"
  /\ req[r].answersRead = <<>>
  /\ LET a == req[r].attemptId
     IN /\ attempts' = [attempts EXCEPT ![a] =
             FinalRow(attempts[a], req[r].exam[1], SubmitType(req[r].op),
                      req[r].totalScore, req[r].correctAnswers,
                      req[r].wrongAnswers, req[r].skipped)]
        /\ submitLog' = [submitLog EXCEPT ![a] = submitLog[a] + 1]
        /\ attemptCache' =
             [s \in DOMAIN attemptCache \ {attempts[a].studentId} |-> attemptCache[s]]
        /\ IF req[r].op = "submitAttempt"
           THEN Finish(r, "ok", attempts'[a].status)
           ELSE Finish(r, "BadRequest", "-")
  /\ UNCHANGED <<exam, questions, answers>>
  /\ UNCHANGED <<now, issued, handlers, cache, users, gradeIn, gradeOut>>

\* ---------------------------------------------------------- saveAnswer
IssueSaveAnswer(r) ==
  \E a \in DOMAIN attempts, i \in DOMAIN QuestionIds, body \in BodyValues :
    /\ CanIssue(r)
    /\ issued' = issued + 1
    /\ req' = [req EXCEPT ![r] =
         [Idle EXCEPT !.op = "saveAnswer", !.pc = "save_find",
            !.attemptId = a, !.questionId = QuestionIds[i],
            !.answer = ControllerAnswer(body), !.body = body,
            !.issuedOn = attempts[a].status,
            !.issuedExpired = Expired(attempts[a]),
            !.rowAtIssue = IF <<a, QuestionIds[i]>> \in DOMAIN answers
                           THEN Some(answers[<<a, QuestionIds[i]>>])
                           ELSE Null]]
    /\ UNCHANGED <<store, now, handlers, cache, attemptCache, users, gradeIn,
                   gradeOut>>

\* an attempt of the student in started or in_progress is looked up
\* (saveAnswer 169-175, submitAttempt 231-237, resumeAttempt 569-576,
\* markForReview 699-705); its status is kept as read
FindActive(r, pc, next) ==
  /\ req[r].pc = pc
  /\ LET attempt == attempts[req[r].attemptId]
     IN IF attempt.studentId = req[r].studentId /\ attempt.status \in Active
        THEN req' = [req EXCEPT ![r].pc = next, ![r].status = attempt.status]
        ELSE Finish(r, "NotFound", "-")
  /\ UNCHANGED store /\ Frame

SaveFind(r) == FindActive(r, "save_find", "save_time")

\* the expiry check throwing BadRequest without autoSubmitAttempt
CheckTimeNoAutoSubmit(r, pc, next) ==
  /\ req[r].pc = pc
  /\ IF Expired(attempts[req[r].attemptId])
     THEN Finish(r, "BadRequest", "-")
     ELSE Goto(r, next)
  /\ UNCHANGED store /\ Frame

\* the exam is read and the clock compared with startedAt + durationMinutes
\* (saveAnswer 177-184, resumeAttempt 578-589): an expired attempt is
\* auto-submitted
CheckTime(r, pc, next) ==
  /\ req[r].pc = pc
  /\ IF Expired(attempts[req[r].attemptId])
     THEN Goto(r, "fz_read")
     ELSE Goto(r, next)
  /\ UNCHANGED store /\ Frame

SaveCheckTime(r) == CheckTime(r, "save_time", "save_upsert")

\* lines 186-207: the answer row of (attempt, question) is upserted;
\* isAnswered is answer !== null && answer !== undefined, and Prisma leaves
\* a column alone whose value is undefined
SaveUpsert(r) ==
  /\ req[r].pc = "save_upsert"
  /\ LET key == <<req[r].attemptId, req[r].questionId>>
         old == IF key \in DOMAIN answers THEN answers[key] ELSE NewAnswer
         row == [old EXCEPT !.selectedAnswer = IF req[r].answer = Null
                                               THEN old.selectedAnswer
                                               ELSE req[r].answer,
                            !.isAnswered = req[r].answer # Null]
     IN answers' = (key :> row) @@ answers
  /\ Goto(r, "save_status")
  /\ UNCHANGED <<exam, questions, attempts, submitLog>> /\ Frame

\* lines 209-224: an attempt read as started is set to in_progress
SaveSetStatus(r) ==
  /\ req[r].pc = "save_status"
  /\ attempts' = IF req[r].status = "started"
                 THEN [attempts EXCEPT ![req[r].attemptId].status = "in_progress"]
                 ELSE attempts
  /\ Finish(r, "ok", "-")
  /\ UNCHANGED <<exam, questions, answers, submitLog>> /\ Frame

\* -------------------------------------------------------- submitAttempt
IssueSubmitAttempt(r) ==
  \E a \in DOMAIN attempts :
    Issue(r, "submitAttempt", "submit_find", a, "-", Null, FALSE)

\* lines 231-239: an active attempt is finalized as submitted
SubmitFind(r) == FindActive(r, "submit_find", "fz_read")

\* -------------------------------------------------------- resumeAttempt
\* GET /:examId/attempts/:attemptId/resume names the attempt,
\* GET /:examId/resume (attempt 0 here) names the exam only
IssueResumeAttempt(r) ==
  \E a \in DOMAIN attempts \cup {0} :
    Issue(r, "resumeAttempt", "resume_find", a, "-", Null, FALSE)

\* lines 561-576: the attempt named, or with findByExamId any attempt of the
\* student for the exam, is looked up in started or in_progress
ResumeFind(r) ==
  \/ req[r].attemptId # 0 /\ FindActive(r, "resume_find", "resume_time")
  \/ /\ req[r].attemptId = 0
     /\ req[r].pc = "resume_find"
     /\ IF ActiveAttempts(req[r].studentId) = {}
        THEN Finish(r, "NotFound", "-")
        ELSE \E a \in ActiveAttempts(req[r].studentId) :
               req' = [req EXCEPT ![r].pc = "resume_time", ![r].attemptId = a,
                                  ![r].status = attempts[a].status]
     /\ UNCHANGED store /\ Frame

ResumeCheckTime(r) == CheckTime(r, "resume_time", "resume_load")

\* lines 591-641: questions and answers are read and the session returned,
\* with timeRemaining = Math.max(0, Math.floor((endTime - new Date()) / 1000))
\* in seconds, the clock being read again
ResumeLoad(r) ==
  /\ req[r].pc = "resume_load"
  /\ req' = [req EXCEPT ![r] =
       [FinishRow(r, "ok", req[r].status) EXCEPT
          !.presented = exam.questions,
          !.answersRead = AnswersOf(req[r].attemptId),
          !.timeRemaining =
             Max(0, 60 * (EndTime(attempts[req[r].attemptId]) - now))]]
  /\ UNCHANGED store /\ Frame

\* -------------------------------------------------------- markForReview
IssueMarkForReview(r) ==
  \E a \in DOMAIN attempts, i \in DOMAIN QuestionIds, m \in BOOLEAN :
    Issue(r, "markForReview", "mark_find", a, QuestionIds[i], Null, m)

MarkFind(r) == FindActive(r, "mark_find", "mark_upsert")

\* lines 707-713: isMarkedForReview of the answer row is upserted
MarkUpsert(r) ==
  /\ req[r].pc = "mark_upsert"
  /\ LET key == <<req[r].attemptId, req[r].questionId>>
         old == IF key \in DOMAIN answers THEN answers[key] ELSE NewAnswer
     IN answers' = (key :> [old EXCEPT !.isMarkedForReview = req[r].isMarked])
                     @@ answers
  /\ Finish(r, "ok", "-")
  /\ UNCHANGED <<exam, questions, attempts, submitLog>> /\ Frame

\* ------------------------------------- getAttemptResult, getAttemptDetails
IssueGetAttemptResult(r) ==
  \E a \in DOMAIN attempts :
    Issue(r, "getAttemptResult", "result_read", a, "-", Null, FALSE)

\* getAttemptResult, lines 356-421 (the student asks for an attempt of their
\* own): an attempt that is not submitted, auto_submitted or graded throws
\* BadRequest, else the stored result is returned
GetAttemptResult(r) ==
  /\ req[r].pc = "result_read"
  /\ LET attempt == attempts[req[r].attemptId]
     IN IF attempt.studentId # req[r].studentId THEN Finish(r, "Forbidden", "-")
        ELSE IF attempt.status \notin {"submitted", "auto_submitted", "graded"}
        THEN Finish(r, "BadRequest", "-")
        ELSE Finish(r, "ok", attempt.status)
  /\ UNCHANGED store /\ Frame

IssueGetAttemptDetails(r) ==
  \E a \in DOMAIN attempts :
    Issue(r, "getAttemptDetails", "details_read", a, "-", Null, FALSE)

\* getAttemptDetails, lines 647-693: an attempt read as started or
\* in_progress is returned as it is, any other goes to getAttemptResult
GetAttemptDetails(r) ==
  /\ req[r].pc = "details_read"
  /\ LET attempt == attempts[req[r].attemptId]
     IN IF attempt.studentId # req[r].studentId THEN Finish(r, "Forbidden", "-")
        ELSE IF attempt.status \in Active THEN Finish(r, "ok", attempt.status)
        ELSE Goto(r, "result_read")
  /\ UNCHANGED store /\ Frame

\* ------------------------------------------------------------- the clock
Tick ==
  /\ now < MaxTime
  /\ now' = now + 1
  /\ UNCHANGED <<store, req, issued, handlers, cache, attemptCache, users,
                 gradeIn, gradeOut>>

\* ------------------------------------------------------------------ Next
Next ==
  \/ Tick
  \/ \E r \in Slots :
       \/ IssueStartAttempt(r) \/ StartReadExam(r) \/ StartCount(r)
       \/ StartFindActive(r) \/ StartCreate(r) \/ StartCreateAnswers(r)
       \/ StartActivate(r)
       \/ IssueSaveAnswer(r) \/ SaveFind(r) \/ SaveCheckTime(r)
       \/ SaveUpsert(r) \/ SaveSetStatus(r)
       \/ IssueSubmitAttempt(r) \/ SubmitFind(r)
       \/ FinalizeRead(r) \/ FinalizeLoad(r) \/ FinalizeGrade(r)
       \/ FinalizeWrite(r)
       \/ IssueResumeAttempt(r) \/ ResumeFind(r) \/ ResumeCheckTime(r)
       \/ ResumeLoad(r)
       \/ IssueMarkForReview(r) \/ MarkFind(r) \/ MarkUpsert(r)
       \/ IssueGetAttemptResult(r) \/ GetAttemptResult(r)
       \/ IssueGetAttemptDetails(r) \/ GetAttemptDetails(r)

Spec == Init /\ [][Next]_vars

\* one request at a time: a client that waits for each response, on exams
\* with and without negative marking and questions with and without
\* negative marks of their own
InitSeq ==
  /\ InitStore
  /\ handlers = 1
  /\ \E n \in {1, 2}, neg \in BOOLEAN, v \in {0, 2} :
       exam = [InitExam(n, neg) EXCEPT !.negativeMarkValue = v]
  /\ \E m \in {0, 3} :
       questions = ("q1" :> McqQuestion("q1", 0)) @@ ("q2" :> McqQuestion("q2", m))

SeqSpec == InitSeq /\ [][Next]_vars

\* one request at a time on an exam that shuffles its questions
InitShuffle ==
  /\ InitStore
  /\ handlers = 1
  /\ exam = [InitExam(2, FALSE) EXCEPT !.shuffleQuestions = TRUE]
  /\ questions = [q \in {"q1", "q2"} |-> McqQuestion(q, 0)]

ShuffleSpec == InitShuffle /\ [][Next]_vars

\* one request at a time on an exam of the single question q1, worth 5
\* marks, while the questions table holds also q2, a question of no exam;
\* the student has not started yet, or has an attempt in progress with q1
\* answered right
InitStray ==
  /\ now = 0
  /\ req = [r \in Slots |-> Idle]
  /\ issued = 0
  /\ cache = Null
  /\ users = OneStudent
  /\ gradeIn = 0
  /\ gradeOut = "-"
  /\ handlers = 1
  /\ questions = [q \in {"q1", "q2"} |-> McqQuestion(q, 0)]
  /\ \/ /\ exam = [InitExam(2, FALSE) EXCEPT !.questions = <<"q1">>,
                                              !.totalMarks = 5]
        /\ attempts = <<>> /\ answers = <<>> /\ submitLog = <<>>
        /\ attemptCache = <<>>
     \/ /\ exam = [InitExam(2, FALSE) EXCEPT !.questions = <<"q1">>,
                      !.totalMarks = 5, !.status = "active"]
        /\ attempts = <<[NewAttempt(StudentId, 1, 5) EXCEPT
                           !.status = "in_progress", !.presented = <<"q1">>]>>
        /\ answers = (<<1, "q1">> :>
                        [NewAnswer EXCEPT !.selectedAnswer = Some("a"),
                                          !.isAnswered = TRUE])
        /\ submitLog = <<0>>
        /\ attemptCache = (StudentId :> 1)

StraySpec == InitStray /\ [][Next]_vars

\* calculateGrade on its own, called on every percentage of two decimals
InitGrade ==
  /\ InitStore
  /\ handlers = 0
  /\ exam = InitExam(1, FALSE)
  /\ questions = [q \in {"q1", "q2"} |-> McqQuestion(q, 0)]

GradeInputs == (0 - MaxPercentage)..(2 * MaxPercentage)

CallCalculateGrade ==
  /\ gradeOut = "-"
  /\ \E p \in GradeInputs :
       /\ gradeIn' = p
       /\ gradeOut' = calculateGrade(p)
  /\ UNCHANGED <<store, now, req, issued, handlers, cache, attemptCache, users>>

GradeSpec == InitGrade /\ [][CallCalculateGrade]_vars

\* checkAnswer on its own, called on a multi-select question with every set
\* of correct options and on every selection of up to MaxSelected ids
MaxSelected == 3

InitCheck ==
  /\ InitStore
  /\ handlers = 0
  /\ exam = [InitExam(1, FALSE) EXCEPT !.questions = <<"q1">>]
  /\ \E correct \in SUBSET {"a", "b", "c"} :
       questions = ("q1" :> MultiQuestion("q1", correct))

Selections ==
  {Selection(FALSE, <<>>)}
  \cup {Selection(TRUE, ids) :
          ids \in UNION {[1..n -> {"a", "b", "c"}] : n \in 0..MaxSelected}}

CallCheckAnswer ==
  /\ gradeOut = "-"
  /\ \E selected \in Selections :
       /\ gradeIn' = selected
       /\ gradeOut' = IF checkAnswer(questions["q1"], Some(selected))
                      THEN "correct" ELSE "incorrect"
  /\ UNCHANGED <<store, now, req, issued, handlers, cache, attemptCache, users>>

CheckSpec == InitCheck /\ [][CallCheckAnswer]_vars

\* ---------------------------------------------------- the exam lifecycle
\* ExamService, called by the educator who created the exam, of the exam's
\* institution.  The model follows one exam
\* id: createExam fills it when no exam row holds it.

\* bodies of PUT /exams/:id: examValidation.update checks the fields it
\* names and leaves the others in req.body, which goes to prisma.exam.update
\* as it is
UpdateData ==
  {[NoData EXCEPT !.title = Some("t2")],
   [NoData EXCEPT !.status = Some("draft")],
   [NoData EXCEPT !.status = Some("published")],
   [NoData EXCEPT !.totalMarks = Some(7)]}

\* questionIds of POST and DELETE /exams/:id/questions; q9 is no question
AddQuestionIds ==
  {<<"q1">>, <<"q2">>, <<"q1", "q2">>, <<"q1", "q9">>, <<"q1", "q1">>}

RemoveQuestionIds == {<<"q1">>, <<"q2">>, <<"q1", "q2">>}

\* the exam_questions rows of a set of questions, in primary-key order
QuestionRows(ids) == SelectSeq(QuestionIds, LAMBDA q : q \in ids)

\* a request of the educator u to ExamService
IssueExamAs(r, u, op, pc, data, questionIds) ==
  /\ CanIssue(r)
  /\ issued' = issued + 1
  /\ req' = [req EXCEPT ![r] =
       [Idle EXCEPT !.op = op, !.pc = pc, !.data = data,
          !.questionIds = questionIds, !.examAtIssue = Some(exam),
          !.cacheAtIssue = cache, !.studentId = u]]
  /\ UNCHANGED <<store, now, handlers, cache, attemptCache, users, gradeIn,
                 gradeOut>>

IssueExam(r, op, pc, data, questionIds) ==
  IssueExamAs(r, Educator, op, pc, data, questionIds)

\* the institution check of the mutations (updateExam 346-354 and the same
\* lines of the others): exam and educator both have an institution and the
\* two differ
ForeignEducator(r) ==
  /\ exam.institutionId # Null
  /\ Educators[req[r].studentId].institutionId # Null
  /\ exam.institutionId # Educators[req[r].studentId].institutionId

\* prisma.exam.update({ where: { id }, data }): undefined columns stay
ApplyData(ex, data) ==
  [ex EXCEPT
     !.title = IF data.title = Null THEN @ ELSE data.title[1],
     !.status = IF data.status = Null THEN @ ELSE data.status[1],
     !.totalMarks = IF data.totalMarks = Null THEN @ ELSE data.totalMarks[1]]

\* prisma.exam.update of the handler at pc; a row deleted meanwhile makes
\* Prisma throw
ExamUpdate(r, pc, data) ==
  /\ req[r].pc = pc
  /\ IF exam.exists
     THEN exam' = ApplyData(exam, data) /\ Goto(r, "uncache")
     ELSE exam' = exam /\ Finish(r, "ServerError", "-")
  /\ UNCHANGED <<questions, attempts, answers, submitLog>> /\ Frame

\* await deleteCache(CacheKeys.examDetails(examId)), the last store call of
\* every mutating operation; the response is returned
DeleteCache(r) ==
  /\ req[r].pc = "uncache"
  /\ cache' = Null
  /\ Finish(r, "ok", "-")
  /\ UNCHANGED <<store, now, issued, handlers, attemptCache, users, gradeIn,
                 gradeOut>>

\* createExam, lines 36-104: the row is created in draft with the totalMarks
\* of the body (which also sets shuffleQuestions false), in the institution
\* of the educator and with no question
IssueCreateExam(r) ==
  /\ ~exam.exists
  /\ IssueExam(r, "createExam", "create", [NoData EXCEPT !.totalMarks = Some(10)],
               <<>>)

CreateExam(r) ==
  /\ req[r].pc = "create"
  /\ exam' = [exists |-> TRUE, title |-> "t1", status |-> "draft",
              durationMinutes |-> 1, totalMarks |-> req[r].data.totalMarks[1],
              passingPercentage |-> 40, negativeMarking |-> FALSE,
              negativeMarkValue |-> 0, maxAttempts |-> 1,
              questions |-> <<>>, sections |-> {}, departments |-> {},
              students |-> {}, assignmentMode |-> "section",
              institutionId |-> Some("i1"), courseId |-> Null,
              startTime |-> Null, endTime |-> Null,
              shuffleQuestions |-> FALSE]
  /\ Finish(r, "ok", "-")
  /\ UNCHANGED <<questions, attempts, answers, submitLog>> /\ Frame

IsStudent(userId) == userId \in DOMAIN users

\* getExamById, lines 109-177, of the educator or of a student
IssueGetExamById(r) ==
  \E u \in DOMAIN users \cup {Educator} :
    /\ CanIssue(r)
    /\ issued' = issued + 1
    /\ req' = [req EXCEPT ![r] =
         [Idle EXCEPT !.op = "getExamById", !.pc = "get_cache",
            !.studentId = u, !.examAtIssue = Some(exam),
            !.cacheAtIssue = cache]]
    /\ UNCHANGED <<store, now, handlers, cache, attemptCache, users, gradeIn,
                   gradeOut>>

\* the response of getExamById (lines 161-170): the exam with, as questions,
\* the question rows with their options as Prisma read them
ExamView(ex) ==
  [ex EXCEPT !.questions = [i \in DOMAIN ex.questions |-> questions[ex.questions[i]]]]

\* lines 110-113: a cached view is returned as it is to a user who is no
\* student
GetCache(r) ==
  /\ req[r].pc = "get_cache"
  /\ IF cache # Null /\ ~IsStudent(req[r].studentId)
     THEN req' = [req EXCEPT ![r] =
            [FinishRow(r, "ok", cache[1].status) EXCEPT !.exam = cache]]
     ELSE Goto(r, "get_read")
  /\ UNCHANGED store /\ Frame

\* the assignment check with the mode deciding which target kind counts
IsAssignedByMode(ex, student, userId) ==
  \/ ex.assignmentMode = "all"
  \/ /\ ex.assignmentMode = "section"
     /\ student.sectionId # Null /\ student.sectionId[1] \in ex.sections
  \/ /\ ex.assignmentMode = "department"
     /\ student.departmentId # Null /\ student.departmentId[1] \in ex.departments
  \/ ex.assignmentMode = "individual" /\ userId \in ex.students

\* lines 142-150: isAssigned
IsAssigned(ex, student, userId) ==
  \/ ex.assignmentMode = "all"
  \/ student.sectionId # Null /\ student.sectionId[1] \in ex.sections
  \/ student.departmentId # Null /\ student.departmentId[1] \in ex.departments
  \/ userId \in ex.students

\* lines 156-158: both institutions are set and differ
OtherInstitution(ex, student) ==
  /\ ex.institutionId # Null /\ student.institutionId # Null
  /\ ex.institutionId # student.institutionId

\* lines 115-170: the exam is read with its questions; for a student the
\* status, the assignment and the institution are checked (the users table
\* does not change)
GetRead(r) ==
  /\ req[r].pc = "get_read"
  /\ LET u == req[r].studentId
     IN IF ~exam.exists THEN Finish(r, "NotFound", "-")
        ELSE IF ~IsStudent(u)
        THEN req' = [req EXCEPT ![r].pc = "get_set",
                                ![r].exam = Some(ExamView(exam))]
        ELSE IF exam.status \notin {"published", "active", "completed"}
        THEN Finish(r, "NotFound", "-")
        ELSE IF ~IsAssigned(exam, users[u], u) THEN Finish(r, "Forbidden", "-")
        ELSE IF OtherInstitution(exam, users[u]) THEN Finish(r, "NotFound", "-")
        ELSE req' = [req EXCEPT ![r] =
               [FinishRow(r, "ok", exam.status) EXCEPT !.exam = Some(ExamView(exam))]]
  /\ UNCHANGED store /\ Frame

\* lines 172-176: for a user who is no student the view is cached (for 300
\* seconds, longer than a run here lasts) and returned
GetSetCache(r) ==
  /\ req[r].pc = "get_set"
  /\ cache' = req[r].exam
  /\ req' = [req EXCEPT ![r] =
       [FinishRow(r, "ok", req[r].exam[1].status) EXCEPT !.exam = req[r].exam]]
  /\ UNCHANGED <<store, now, issued, handlers, attemptCache, users, gradeIn,
                 gradeOut>>

\* getAvailableExams, lines 276-303: the exam is listed for a student when it
\* is published or active, of the student's institution, inside its time
\* window, and assigned by mode all, section, department or student row
IssueGetAvailableExams(r) ==
  \E s \in DOMAIN users :
    /\ CanIssue(r)
    /\ issued' = issued + 1
    /\ req' = [req EXCEPT ![r] =
         [Idle EXCEPT !.op = "getAvailableExams", !.pc = "avail_read",
            !.studentId = s, !.examAtIssue = Some(exam)]]
    /\ UNCHANGED <<store, now, handlers, cache, attemptCache, users, gradeIn,
                   gradeOut>>

GetAvailableExams(r) ==
  /\ req[r].pc = "avail_read"
  /\ LET s == req[r].studentId
         listed ==
           /\ exam.exists
           /\ exam.status \in {"published", "active"}
           /\ exam.institutionId = users[s].institutionId
           /\ exam.startTime = Null \/ exam.startTime[1] <= now
           /\ exam.endTime = Null \/ exam.endTime[1] >= now
           /\ IsAssigned(exam, users[s], s)
     IN Finish(r, "ok", IF listed THEN "listed" ELSE "empty")
  /\ UNCHANGED store /\ Frame

\* ----------------------------------------------- updateExam, deleteExam
IssueUpdateExam(r) ==
  \E data \in UpdateData : IssueExam(r, "updateExam", "upd_read", data, <<>>)

\* the exam is read and edited in any status
EditReadAllowed(r, pc, next) ==
  /\ req[r].pc = pc
  /\ IF ~exam.exists THEN Finish(r, "NotFound", "-")
     ELSE IF ForeignEducator(r) THEN Finish(r, "Forbidden", "-")
     ELSE Goto(r, next)
  /\ UNCHANGED store /\ Frame

\* updateExam 341-358, deleteExam 376-393: the exam is read; an active or
\* completed exam is refused with BadRequest
EditRead(r, pc, next) ==
  /\ req[r].pc = pc
  /\ IF ~exam.exists THEN Finish(r, "NotFound", "-")
     ELSE IF ForeignEducator(r) THEN Finish(r, "Forbidden", "-")
     ELSE IF exam.status \in {"active", "completed"}
     THEN Finish(r, "BadRequest", "-")
     ELSE Goto(r, next)
  /\ UNCHANGED store /\ Frame

UpdateRead(r) == EditRead(r, "upd_read", "upd_write")

\* lines 360-364: the body is written to the row
UpdateWrite(r) == ExamUpdate(r, "upd_write", req[r].data)

IssueDeleteExam(r) == IssueExam(r, "deleteExam", "del_read", NoData, <<>>)

DeleteRead(r) == EditRead(r, "del_read", "del_tx")

\* lines 395-402, one transaction: the exam_questions and assignment rows
\* and the exam row are deleted; exam_attempts.examId is ON DELETE RESTRICT,
\* so with an attempt row the transaction fails and is rolled back
DeleteTransaction(r) ==
  /\ req[r].pc = "del_tx"
  /\ IF exam.exists /\ attempts = <<>>
     THEN /\ exam' = [exam EXCEPT !.exists = FALSE, !.questions = <<>>,
                                  !.sections = {}]
          /\ Goto(r, "uncache")
     ELSE exam' = exam /\ Finish(r, "ServerError", "-")
  /\ UNCHANGED <<questions, attempts, answers, submitLog>> /\ Frame

\* ----------------------------- addQuestionsToExam, removeQuestionsFromExam
IssueAddQuestions(r) ==
  \E ids \in AddQuestionIds :
    IssueExam(r, "addQuestionsToExam", "add_read", NoData, ids)

\* lines 414-435: the exam is read, then the questions named (the questions
\* table does not change); fewer rows than ids is BadRequest
AddRead(r) ==
  /\ req[r].pc = "add_read"
  /\ LET ids == req[r].questionIds
         found == Range(ids) \cap DOMAIN questions
     IN IF ~exam.exists THEN Finish(r, "NotFound", "-")
        ELSE IF ForeignEducator(r) THEN Finish(r, "Forbidden", "-")
        ELSE IF Cardinality(found) # Len(ids) THEN Finish(r, "BadRequest", "-")
        ELSE Goto(r, "add_create")
  /\ UNCHANGED store /\ Frame

\* lines 437-440: createMany with skipDuplicates; exam_questions.examId is a
\* foreign key, so without the exam row the insert fails
AddCreate(r) ==
  /\ req[r].pc = "add_create"
  /\ IF exam.exists
     THEN /\ exam' = [exam EXCEPT
               !.questions = QuestionRows(Range(@) \cup Range(req[r].questionIds))]
          /\ Goto(r, "add_sum")
     ELSE exam' = exam /\ Finish(r, "ServerError", "-")
  /\ UNCHANGED <<questions, attempts, answers, submitLog>> /\ Frame

\* sum + (rel.question.marks || 1) over the rows
RECURSIVE SumOfMarks(_)
SumOfMarks(rows) ==
  IF rows = <<>> THEN 0
  ELSE (IF questions[Head(rows)].marks # 0 THEN questions[Head(rows)].marks
        ELSE 1) + SumOfMarks(Tail(rows))

\* lines 442-446 and 482-486: the rows of the exam are read and their marks
\* summed up
ReadTotalMarks(r, pc, next) ==
  /\ req[r].pc = pc
  /\ req' = [req EXCEPT ![r].pc = next,
                        ![r].totalMarks = SumOfMarks(exam.questions)]
  /\ UNCHANGED store /\ Frame

AddSum(r) == ReadTotalMarks(r, "add_sum", "add_update")

\* line 448: the sum is written to exam.totalMarks
AddUpdate(r) ==
  ExamUpdate(r, "add_update", [NoData EXCEPT !.totalMarks = Some(req[r].totalMarks)])

IssueRemoveQuestions(r) ==
  \E ids \in RemoveQuestionIds :
    IssueExam(r, "removeQuestionsFromExam", "rem_read", NoData, ids)

\* lines 463-476: the exam is read
RemoveRead(r) ==
  /\ req[r].pc = "rem_read"
  /\ IF ~exam.exists THEN Finish(r, "NotFound", "-")
     ELSE IF ForeignEducator(r) THEN Finish(r, "Forbidden", "-")
     ELSE Goto(r, "rem_delete")
  /\ UNCHANGED store /\ Frame

\* lines 478-480: deleteMany of the rows named
RemoveDelete(r) ==
  /\ req[r].pc = "rem_delete"
  /\ exam' = [exam EXCEPT
       !.questions = QuestionRows(Range(@) \ Range(req[r].questionIds))]
  /\ Goto(r, "rem_sum")
  /\ UNCHANGED <<questions, attempts, answers, submitLog>> /\ Frame

RemoveSum(r) == ReadTotalMarks(r, "rem_sum", "rem_update")

\* line 488
RemoveUpdate(r) ==
  ExamUpdate(r, "rem_update", [NoData EXCEPT !.totalMarks = Some(req[r].totalMarks)])

\* ------------------------------------ publish, activate, close, archive
IssuePublishExam(r) == IssueExam(r, "publishExam", "pub_read", NoData, <<>>)

\* lines 503-523: the exam is read with the count of its questions; an exam
\* without questions is BadRequest; the status is not looked at
PublishRead(r) ==
  /\ req[r].pc = "pub_read"
  /\ IF ~exam.exists THEN Finish(r, "NotFound", "-")
     ELSE IF ForeignEducator(r) THEN Finish(r, "Forbidden", "-")
     ELSE IF Len(exam.questions) = 0 THEN Finish(r, "BadRequest", "-")
     ELSE Goto(r, "pub_write")
  /\ UNCHANGED store /\ Frame

\* lines 525-529
PublishWrite(r) ==
  ExamUpdate(r, "pub_write", [NoData EXCEPT !.status = Some("published")])

IssueActivateExam(r) == IssueExam(r, "activateExam", "act_read", NoData, <<>>)

\* activateExam reading the exam and activating it from any status
ActivateReadAnyStatus(r) ==
  /\ req[r].pc = "act_read"
  /\ IF ~exam.exists THEN Finish(r, "NotFound", "-")
     ELSE IF ForeignEducator(r) THEN Finish(r, "Forbidden", "-")
     ELSE Goto(r, "act_write")
  /\ UNCHANGED store /\ Frame

\* lines 540-557: only a published exam is activated
ActivateRead(r) ==
  /\ req[r].pc = "act_read"
  /\ IF ~exam.exists THEN Finish(r, "NotFound", "-")
     ELSE IF ForeignEducator(r) THEN Finish(r, "Forbidden", "-")
     ELSE IF exam.status # "published" THEN Finish(r, "BadRequest", "-")
     ELSE Goto(r, "act_write")
  /\ UNCHANGED store /\ Frame

\* lines 559-563
ActivateWrite(r) ==
  ExamUpdate(r, "act_write", [NoData EXCEPT !.status = Some("active")])

IssueCloseExam(r) == IssueExam(r, "closeExam", "close_read", NoData, <<>>)

\* closeExam reading the exam and closing it unless it is a draft
CloseReadNotDraft(r) ==
  /\ req[r].pc = "close_read"
  /\ IF ~exam.exists THEN Finish(r, "NotFound", "-")
     ELSE IF ForeignEducator(r) THEN Finish(r, "Forbidden", "-")
     ELSE IF exam.status = "draft" THEN Finish(r, "BadRequest", "-")
     ELSE Goto(r, "close_write")
  /\ UNCHANGED store /\ Frame

\* lines 574-591: only a published or active exam is closed
CloseRead(r) ==
  /\ req[r].pc = "close_read"
  /\ IF ~exam.exists THEN Finish(r, "NotFound", "-")
     ELSE IF ForeignEducator(r) THEN Finish(r, "Forbidden", "-")
     ELSE IF exam.status \notin {"published", "active"}
     THEN Finish(r, "BadRequest", "-")
     ELSE Goto(r, "close_write")
  /\ UNCHANGED store /\ Frame

\* lines 593-597
CloseWrite(r) ==
  ExamUpdate(r, "close_write", [NoData EXCEPT !.status = Some("completed")])

IssueArchiveExam(r) == IssueExam(r, "archiveExam", "arch_read", NoData, <<>>)

\* lines 608-615: the exam is read (the educator is its creator)
ArchiveRead(r) ==
  /\ req[r].pc = "arch_read"
  /\ IF ~exam.exists THEN Finish(r, "NotFound", "-")
     ELSE Goto(r, "arch_write")
  /\ UNCHANGED store /\ Frame

\* lines 617-621
ArchiveWrite(r) ==
  ExamUpdate(r, "arch_write", [NoData EXCEPT !.status = Some("archived")])

\* ------------------------------------------------ the lifecycle on its own
\* the educator's requests and startAttempt, one request at a time
ExamNext ==
  \E r \in Slots :
    \/ IssueCreateExam(r) \/ CreateExam(r)
    \/ IssueGetExamById(r) \/ GetCache(r) \/ GetRead(r) \/ GetSetCache(r)
    \/ IssueUpdateExam(r) \/ UpdateRead(r) \/ UpdateWrite(r)
    \/ IssueDeleteExam(r) \/ DeleteRead(r) \/ DeleteTransaction(r)
    \/ IssueAddQuestions(r) \/ AddRead(r) \/ AddCreate(r) \/ AddSum(r)
    \/ AddUpdate(r)
    \/ IssueRemoveQuestions(r) \/ RemoveRead(r) \/ RemoveDelete(r)
    \/ RemoveSum(r) \/ RemoveUpdate(r)
    \/ IssuePublishExam(r) \/ PublishRead(r) \/ PublishWrite(r)
    \/ IssueActivateExam(r) \/ ActivateRead(r) \/ ActivateWrite(r)
    \/ IssueCloseExam(r) \/ CloseRead(r) \/ CloseWrite(r)
    \/ IssueArchiveExam(r) \/ ArchiveRead(r) \/ ArchiveWrite(r)
    \/ DeleteCache(r)
    \/ IssueStartAttempt(r) \/ StartReadExam(r) \/ StartCount(r)
    \/ StartFindActive(r) \/ StartCreate(r) \/ StartCreateAnswers(r)
    \/ StartActivate(r)

\* an attempt of the student with both questions left blank, submitted
SubmittedBlank ==
  FinalRow([NewAttempt(StudentId, 1, 10) EXCEPT !.presented = <<"q1", "q2">>],
           InitExam(2, FALSE), "submitted", 0, 0, 0, 2)

\* The store at the start of a run: no exam yet; or the exam of two
\* questions in draft or published and no attempt; or that exam active after
\* the student started and submitted a first attempt of the two allowed.
InitLifecycle ==
  /\ now = 0
  /\ req = [r \in Slots |-> Idle]
  /\ issued = 0
  /\ cache = Null
  /\ attemptCache = <<>>
  /\ users = OneStudent
  /\ gradeIn = 0
  /\ gradeOut = "-"
  /\ handlers = 1
  /\ questions = [q \in {"q1", "q2"} |-> McqQuestion(q, 0)]
  /\ \/ /\ exam = [InitExam(2, FALSE) EXCEPT !.exists = FALSE, !.status = "draft",
                      !.questions = <<>>, !.sections = {}]
        /\ attempts = <<>> /\ answers = <<>> /\ submitLog = <<>>
     \/ /\ \E st \in {"draft", "published"} :
             exam = [InitExam(2, FALSE) EXCEPT !.status = st]
        /\ attempts = <<>> /\ answers = <<>> /\ submitLog = <<>>
     \/ /\ exam = [InitExam(2, FALSE) EXCEPT !.status = "active"]
        /\ attempts = <<SubmittedBlank>>
        /\ answers = [k \in {<<1, "q1">>, <<1, "q2">>} |->
                        [NewAnswer EXCEPT !.isCorrect = Some(FALSE)]]
        /\ submitLog = <<1>>

ExamSpec == InitLifecycle /\ [][ExamNext]_vars

\* two requests at a time on the exam of two questions, draft or published
InitRace ==
  /\ InitStore
  /\ handlers = 2
  /\ questions = [q \in {"q1", "q2"} |-> McqQuestion(q, 0)]
  /\ \E st \in {"draft", "published"} :
       exam = [InitExam(2, FALSE) EXCEPT !.status = st]

ExamRaceSpec == InitRace /\ [][ExamNext]_vars

\* ------------------------------------------------------------ assignExam
\* the rows of the sections and departments tables; users holds the students
SectionIds == {"sec1", "sec2"}

DepartmentIds == {"dep1", "dep2"}

\* bodies of POST /exams/:id/assign; dep9 is no department
AssignData ==
  {[NoData EXCEPT !.sectionIds = Some({"sec2"})],
   [NoData EXCEPT !.sectionIds = Some({})],
   [NoData EXCEPT !.departmentIds = Some({"dep1"})],
   [NoData EXCEPT !.studentIds = Some({"s2"}), !.assignmentMode = Some("individual")],
   [NoData EXCEPT !.sectionIds = Some({"sec2"}), !.departmentIds = Some({"dep9"})],
   [NoData EXCEPT !.assignmentMode = Some("all")]}

IssueAssignExam(r) ==
  \E data \in AssignData : IssueExam(r, "assignExam", "assign_read", data, <<>>)

\* lines 634-647: the exam is read; the educator is of the exam's institution
AssignRead(r) ==
  /\ req[r].pc = "assign_read"
  /\ IF ~exam.exists THEN Finish(r, "NotFound", "-")
     ELSE IF ForeignEducator(r) THEN Finish(r, "Forbidden", "-")
     ELSE Goto(r, "assign_tx")
  /\ UNCHANGED store /\ Frame

\* the rows of one target kind after the transaction: those given, else
\* those there were
Replaced(given, rows) == IF given = Null THEN rows ELSE given[1]

\* the transaction emptying also the target kinds the body does not give
AssignTransactionClearing(r) ==
  /\ req[r].pc = "assign_tx"
  /\ LET data == req[r].data
         known ==
           /\ exam.exists
           /\ Replaced(data.sectionIds, {}) \subseteq SectionIds
           /\ Replaced(data.departmentIds, {}) \subseteq DepartmentIds
           /\ Replaced(data.studentIds, {}) \subseteq DOMAIN users
     IN IF known
        THEN /\ exam' = [exam EXCEPT
                  !.sections = Replaced(data.sectionIds, {}),
                  !.departments = Replaced(data.departmentIds, {}),
                  !.students = Replaced(data.studentIds, {}),
                  !.assignmentMode = Replaced(data.assignmentMode, @)]
             /\ Goto(r, "uncache")
        ELSE exam' = exam /\ Finish(r, "ServerError", "-")
  /\ UNCHANGED <<questions, attempts, answers, submitLog>> /\ Frame

\* lines 649-680, one interactive transaction: for each kind given the rows
\* of the exam are deleted and the given ones created, and assignmentMode is
\* written when given; a foreign key without its row (section, department,
\* user or the exam) makes the transaction fail and roll back
AssignTransaction(r) ==
  /\ req[r].pc = "assign_tx"
  /\ LET data == req[r].data
         known ==
           /\ exam.exists
           /\ Replaced(data.sectionIds, {}) \subseteq SectionIds
           /\ Replaced(data.departmentIds, {}) \subseteq DepartmentIds
           /\ Replaced(data.studentIds, {}) \subseteq DOMAIN users
     IN IF known
        THEN /\ exam' = [exam EXCEPT
                  !.sections = Replaced(data.sectionIds, @),
                  !.departments = Replaced(data.departmentIds, @),
                  !.students = Replaced(data.studentIds, @),
                  !.assignmentMode = Replaced(data.assignmentMode, @)]
             /\ Goto(r, "uncache")
        ELSE exam' = exam /\ Finish(r, "ServerError", "-")
  /\ UNCHANGED <<questions, attempts, answers, submitLog>> /\ Frame

\* ------------------------------------------- educators of other institutions
\* one request of each mutation
OtherRequests ==
  {[op |-> "updateExam", pc |-> "upd_read",
    data |-> [NoData EXCEPT !.title = Some("t2")], questionIds |-> <<>>],
   [op |-> "deleteExam", pc |-> "del_read", data |-> NoData, questionIds |-> <<>>],
   [op |-> "addQuestionsToExam", pc |-> "add_read", data |-> NoData,
    questionIds |-> <<"q1">>],
   [op |-> "removeQuestionsFromExam", pc |-> "rem_read", data |-> NoData,
    questionIds |-> <<"q1">>],
   [op |-> "publishExam", pc |-> "pub_read", data |-> NoData, questionIds |-> <<>>],
   [op |-> "activateExam", pc |-> "act_read", data |-> NoData, questionIds |-> <<>>],
   [op |-> "closeExam", pc |-> "close_read", data |-> NoData, questionIds |-> <<>>],
   [op |-> "assignExam", pc |-> "assign_read",
    data |-> [NoData EXCEPT !.sectionIds = Some({"sec2"})], questionIds |-> <<>>]}

\* a mutation asked for by the educator of institution i2 or by the educator
\* without institution
IssueAsOther(r) ==
  \E u \in {"edu2", "edu0"}, k \in OtherRequests :
    IssueExamAs(r, u, k.op, k.pc, k.data, k.questionIds)

\* the exam of two questions, draft or published, of institution i1 or of
\* no institution, and no attempt
InitOwner ==
  /\ InitStore
  /\ handlers = 1
  /\ questions = [q \in {"q1", "q2"} |-> McqQuestion(q, 0)]
  /\ \E st \in {"draft", "published"}, inst \in {Null, Some("i1")} :
       exam = [InitExam(2, FALSE) EXCEPT !.status = st, !.institutionId = inst]

\* the requests of the three educators, one at a time
OwnerNext ==
  \/ ExamNext
  \/ \E r \in Slots :
       \/ IssueAsOther(r)
       \/ IssueAssignExam(r) \/ AssignRead(r) \/ AssignTransaction(r)

OwnerSpec == InitOwner /\ [][OwnerNext]_vars

\* ------------------------------------------------- who may see and start
\* three students: s1 of the section the exam is assigned to, s2 of another
\* section but of department dep1 and without enrollment, s3 of another
\* section, department and institution
ThreeStudents ==
  ("s1" :> Student(Some("sec1"), Some("dep1"), Some("i1"), TRUE))
  @@ ("s2" :> Student(Some("sec2"), Some("dep1"), Some("i1"), FALSE))
  @@ ("s3" :> Student(Some("sec2"), Some("dep2"), Some("i2"), TRUE))

\* the exams of the runs: assigned to section sec1 with one or two attempts
\* allowed; assigned also to department dep1; of a course; open from minute
\* 1 to minute 1; a draft; no exam
AccessExams ==
  {InitExam(1, FALSE), InitExam(2, FALSE),
   [InitExam(1, FALSE) EXCEPT !.departments = {"dep1"}],
   [InitExam(1, FALSE) EXCEPT !.courseId = Some("c1")],
   [InitExam(1, FALSE) EXCEPT !.startTime = Some(1), !.endTime = Some(1)],
   [InitExam(1, FALSE) EXCEPT !.status = "draft"],
   [InitExam(1, FALSE) EXCEPT !.exists = FALSE, !.status = "draft",
      !.questions = <<>>, !.sections = {}]}

InitAccess ==
  /\ attempts = <<>> /\ answers = <<>> /\ submitLog = <<>>
  /\ now = 0
  /\ req = [r \in Slots |-> Idle]
  /\ issued = 0
  /\ cache = Null
  /\ attemptCache = <<>>
  /\ gradeIn = 0
  /\ gradeOut = "-"
  /\ handlers = 1
  /\ users = ThreeStudents
  /\ questions = [q \in {"q1", "q2"} |-> McqQuestion(q, 0)]
  /\ exam \in AccessExams

\* students starting attempts and looking at the exam, the educator looking
\* at it and assigning it, one request at a time
AccessNext ==
  \/ Tick
  \/ \E r \in Slots :
       \/ IssueStartAttempt(r) \/ StartReadExam(r) \/ StartCount(r)
       \/ StartFindActive(r) \/ StartCreate(r) \/ StartCreateAnswers(r)
       \/ StartActivate(r)
       \/ IssueGetExamById(r) \/ GetCache(r) \/ GetRead(r) \/ GetSetCache(r)
       \/ IssueGetAvailableExams(r) \/ GetAvailableExams(r)
       \/ IssueAssignExam(r) \/ AssignRead(r) \/ AssignTransaction(r)
       \/ DeleteCache(r)

AccessSpec == InitAccess /\ [][AccessNext]_vars

\* ---------------------------------------------------------------- claims
Done(r) == req[r].pc = "done"

\* the requests that were issued on an attempt in started or in_progress
\* whose endTime had passed
IssuedOnExpired(r) == req[r].issuedOn \in Active /\ req[r].issuedExpired

\* sum of marksAwarded over the answer rows of an attempt
RECURSIVE SumMarks(_, _)
SumMarks(attemptId, i) ==
  IF i = 0 THEN 0
  ELSE SumMarks(attemptId, i - 1)
       + (IF <<attemptId, QuestionIds[i]>> \in DOMAIN answers
          THEN answers[<<attemptId, QuestionIds[i]>>].marksAwarded ELSE 0)

\* C1: at every moment, also while startAttempt requests of the same student
\* for the same exam interleave, at most one attempt of the student is in
\* started or in_progress (of two simultaneous requests only one succeeds).
C1_AtMostOneActiveAttempt ==
  Cardinality(ActiveAttempts(StudentId)) <= 1

\* C2: the number of attempt rows of the student for the exam never exceeds
\* the exam's maxAttempts.
C2_AttemptsWithinBudget ==
  AttemptCount(StudentId) <= exam.maxAttempts

\* C3: once an attempt is submitted or auto_submitted, no step of any request
\* changes its status again.
C3_FinalStatusNeverChanges ==
  [][\A a \in DOMAIN attempts :
       attempts[a].status \in Finalized
         => attempts'[a].status = attempts[a].status]_vars

\* C4: a submitAttempt issued on an attempt that is already submitted or
\* auto_submitted fails with BadRequest (already submitted).
C4_SecondSubmitIsBadRequest ==
  \A r \in Slots :
    Done(r) /\ req[r].op = "submitAttempt" /\ req[r].issuedOn \in Finalized
      => req[r].resp = "BadRequest"

\* C4, the rest of it: no step of a submitAttempt issued on a finalized
\* attempt changes an attempt row or an answer row (nothing is re-scored).
C4_SecondSubmitChangesNothing ==
  [][\A r \in Slots :
       (req[r].op = "submitAttempt" /\ req[r].issuedOn \in Finalized
          /\ InFlight(r) /\ req'[r] # req[r])
         => UNCHANGED <<attempts, answers, submitLog>>]_vars

\* C5: an attempt is graded and its final status written at most once: the
\* activity log holds at most one exam_submitted entry per attempt, also when
\* a submitAttempt and an auto-submit run at the same time.
C5_FinalizedAtMostOnce ==
  \A a \in DOMAIN attempts : submitLog[a] <= 1

C7_ExpiredAttemptIsAutoSubmitted ==
  \A r \in Slots :
    Done(r) /\ IssuedOnExpired(r)
      /\ req[r].op \in {"saveAnswer", "markForReview", "submitAttempt",
                        "resumeAttempt", "getAttemptDetails", "getAttemptResult"}
      => attempts[req[r].attemptId].status = "auto_submitted"

\* C8: the totalScore stored on an attempt is never negative, whatever the
\* answers and the negative marks are.
C8_TotalScoreNotNegative ==
  \A a \in DOMAIN attempts : attempts[a].totalScore >= 0

\* C8 witness: a finalized attempt under negative marking whose answered
\* questions are all wrong and whose marks sum up to less than zero.
C8_Witness ==
  \E a \in DOMAIN attempts :
    /\ attempts[a].status \in Finalized
    /\ exam.negativeMarking
    /\ attempts[a].wrongAnswers >= 1
    /\ attempts[a].correctAnswers = 0
    /\ SumMarks(a, Len(QuestionIds)) < 0
    /\ attempts[a].totalScore = 0

\* C9: the percentage stored by finalize is the one of the score floored at
\* zero, round2(totalScore / totalMarks * 100) of the stored totalScore, and
\* so is never negative.
C9_PercentageOfFlooredScore ==
  \A a \in DOMAIN attempts :
    attempts[a].status \in Finalized
      => /\ attempts[a].percentage[1] >= 0
         /\ attempts[a].percentage =
              Some(calculatePercentage(attempts[a].totalScore, exam.totalMarks))

\* C10: calculateGrade gives A+ from 90, A from 80 to below 90, B from 70 to
\* below 80, C from 60 to below 70, D from 50 to below 60 and F below 50:
\* every percentage has exactly one grade.
C10_GradeBands ==
  gradeOut # "-" =>
    /\ gradeOut = "A+" <=> gradeIn >= 9000
    /\ gradeOut = "A" <=> (gradeIn >= 8000 /\ gradeIn < 9000)
    /\ gradeOut = "B" <=> (gradeIn >= 7000 /\ gradeIn < 8000)
    /\ gradeOut = "C" <=> (gradeIn >= 6000 /\ gradeIn < 7000)
    /\ gradeOut = "D" <=> (gradeIn >= 5000 /\ gradeIn < 6000)
    /\ gradeOut = "F" <=> gradeIn < 5000
    /\ gradeOut \in {"A+", "A", "B", "C", "D", "F"}

\* C10 witness: a percentage at the lower edge of the D band was graded.
C10_Witness == gradeOut = "D" /\ gradeIn = 5000

\* C11: calculateGrade gives A+ for 90, A for 89.99, D for 40 and F for 39.99.
C11_ConcreteGrades ==
  gradeOut # "-" =>
    /\ gradeIn = 9000 => gradeOut = "A+"
    /\ gradeIn = 8999 => gradeOut = "A"
    /\ gradeIn = 4000 => gradeOut = "D"
    /\ gradeIn = 3999 => gradeOut = "F"

\* C11, amended: calculateGrade gives A+ for 90, A for 89.99, F for 40 and F
\* for 39.99; the lowest percentage graded D is 50.
C11_ConcreteGradesFrom50 ==
  gradeOut # "-" =>
    /\ gradeIn = 9000 => gradeOut = "A+"
    /\ gradeIn = 8999 => gradeOut = "A"
    /\ gradeIn = 4000 => gradeOut = "F"
    /\ gradeIn = 3999 => gradeOut = "F"
    /\ gradeOut = "D" => gradeIn >= 5000

\* C11 witness: the percentage 40 was graded, and graded F.
C11_Witness == gradeIn = 4000 /\ gradeOut = "F"

\* the answer rows of an attempt
RowsOf(attemptId) == {k \in DOMAIN answers : k[1] = attemptId}

\* sum of question.marks over a set of question ids
RECURSIVE SumQuestionMarks(_)
SumQuestionMarks(ids) ==
  IF ids = {} THEN 0
  ELSE LET q == CHOOSE x \in ids : TRUE
       IN questions[q].marks + SumQuestionMarks(ids \ {q})

Before(r) == req[r].examAtIssue[1]

\* a finished request of the operation op that was issued on an existing exam
DoneOn(r, op) ==
  Done(r) /\ req[r].op = op /\ req[r].examAtIssue # Null /\ Before(r).exists

\* C13: publishExam succeeds only on a draft exam with at least one question
\* (and then the exam is published); on any other status, or without
\* questions, it fails with BadRequest and leaves the status as it was.
C13_PublishOnlyFromDraft ==
  \A r \in Slots :
    DoneOn(r, "publishExam") =>
      IF Before(r).status = "draft" /\ Len(Before(r).questions) >= 1
      THEN req[r].resp = "ok" /\ exam.status = "published"
      ELSE req[r].resp = "BadRequest" /\ exam.status = Before(r).status

\* the place of a status in draft, published, active, completed, archived
Rank(status) ==
  CASE status = "draft" -> 0
    [] status = "published" -> 1
    [] status = "active" -> 2
    [] status = "completed" -> 3
    [] status = "archived" -> 4

\* C14: no step of publish, activate, close, archive, updateExam or
\* startAttempt takes the status of an exam from a later status to an earlier
\* one in the order draft, published, active, completed, archived.
C14_StatusMovesForward ==
  [][exam.exists /\ exam'.exists
       => Rank(exam'.status) >= Rank(exam.status)]_vars

\* C15: activateExam succeeds only on a published exam and then sets it to
\* active; on a draft, active, completed or archived exam it fails with
\* BadRequest and leaves the exam as it was.
C15_ActivateOnlyFromPublished ==
  \A r \in Slots :
    DoneOn(r, "activateExam") =>
      IF Before(r).status = "published"
      THEN req[r].resp = "ok" /\ exam.status = "active"
      ELSE req[r].resp = "BadRequest" /\ exam = Before(r)

\* C15 witness: an activateExam on a completed exam was refused.
C15_Witness ==
  \E r \in Slots :
    /\ DoneOn(r, "activateExam") /\ Before(r).status = "completed"
    /\ req[r].resp = "BadRequest" /\ exam.status = "completed"

\* C16: closeExam succeeds only on a published or active exam and then sets
\* it to completed; on a draft, completed or archived exam it fails with
\* BadRequest and leaves the exam as it was.
C16_CloseOnlyFromPublishedOrActive ==
  \A r \in Slots :
    DoneOn(r, "closeExam") =>
      IF Before(r).status \in {"published", "active"}
      THEN req[r].resp = "ok" /\ exam.status = "completed"
      ELSE req[r].resp = "BadRequest" /\ exam = Before(r)

\* C16 witness: a closeExam on an archived exam was refused.
C16_Witness ==
  \E r \in Slots :
    /\ DoneOn(r, "closeExam") /\ Before(r).status = "archived"
    /\ req[r].resp = "BadRequest" /\ exam.status = "archived"

\* C17: updateExam and deleteExam on an active or completed exam fail with
\* BadRequest and leave the exam row, its questions, its assignment rows and
\* its cache entry as they were.
C17_EditRefusedOnActiveOrCompleted ==
  \A r \in Slots :
    \A op \in {"updateExam", "deleteExam"} :
      DoneOn(r, op) /\ Before(r).status \in {"active", "completed"}
        => /\ req[r].resp = "BadRequest"
           /\ exam = Before(r)
           /\ cache = req[r].cacheAtIssue

\* C17 witness: an updateExam was refused on a completed exam that has
\* questions, an assigned section and a cached view.
C17_Witness ==
  \E r \in Slots :
    /\ DoneOn(r, "updateExam") /\ Before(r).status = "completed"
    /\ req[r].resp = "BadRequest"
    /\ exam.questions # <<>> /\ exam.sections # {} /\ cache # Null

\* C18: no step changes the questions or the totalMarks of an exam whose
\* status is active or completed.
C18_QuestionSetFrozen ==
  [][exam.exists /\ exam.status \in {"active", "completed"}
       => /\ exam'.questions = exam.questions
          /\ exam'.totalMarks = exam.totalMarks]_vars

\* C19: whenever no request is in flight (so right after createExam, after
\* every addQuestionsToExam and removeQuestionsFromExam and after
\* updateExam), the totalMarks of the exam is the sum of the marks of the
\* questions it holds.
C19_TotalMarksIsSumOfMarks ==
  (exam.exists /\ \A r \in Slots : ~InFlight(r))
    => exam.totalMarks = SumQuestionMarks(Range(exam.questions))

\* C20: after every successful startAttempt the status of the exam is active,
\* whatever the number of earlier attempts of the student is.
C20_StartedExamIsActive ==
  \A r \in Slots :
    Done(r) /\ req[r].op = "startAttempt" /\ req[r].resp = "ok"
      => exam.status = "active"

\* the student of a request
Caller(r) == users[req[r].studentId]

\* the student u is a target of the exam ex: the mode is all, or the section,
\* the department or the student is among the targets
Targeted(ex, u) ==
  \/ ex.assignmentMode = "all"
  \/ \E sec \in ex.sections : users[u].sectionId = Some(sec)
  \/ \E dep \in ex.departments : users[u].departmentId = Some(dep)
  \/ u \in ex.students

\* the exam ex and the student u are of two institutions
Foreign(ex, u) ==
  /\ ex.institutionId # Null /\ users[u].institutionId # Null
  /\ ex.institutionId[1] # users[u].institutionId[1]

\* C21: startAttempt creates an attempt only for a student who matches the
\* exam's assignment (mode all, or a section, department or individual
\* target) and whose institution does not differ from the exam's; for any
\* other student it fails and no attempt of that student exists.
C21_StartChecksAssignment ==
  \A r \in Slots :
    DoneOn(r, "startAttempt") =>
      \/ Targeted(Before(r), req[r].studentId)
         /\ ~Foreign(Before(r), req[r].studentId)
      \/ req[r].resp # "ok" /\ req[r].attemptId = 0

\* C22: the assignment check of getExamById and of getAvailableExams is the
\* disjunction of mode all, section among the sections, department among the
\* departments and student among the students, whatever assignmentMode is: a
\* student of a visible exam is refused with Forbidden exactly when no
\* disjunct holds, and an exam is listed only for a student one disjunct
\* holds for, and is listed for every such student of the exam's institution
\* when it is published or active and has no time window.
C22_AssignmentIsDisjunction ==
  \A r \in Slots :
    /\ DoneOn(r, "getExamById") /\ IsStudent(req[r].studentId)
       /\ Before(r).status \in {"published", "active", "completed"} =>
         (req[r].resp = "Forbidden" <=> ~Targeted(Before(r), req[r].studentId))
    /\ DoneOn(r, "getAvailableExams") =>
         /\ req[r].status = "listed" => Targeted(Before(r), req[r].studentId)
         /\ Targeted(Before(r), req[r].studentId)
            /\ Before(r).status \in {"published", "active"}
            /\ Before(r).institutionId = Caller(r).institutionId
            /\ Before(r).startTime = Null /\ Before(r).endTime = Null
            => req[r].status = "listed"

\* a student of another section than the exam's, the mode being section, got
\* the exam through the department, by id and in the list
C22_Witness ==
  \E r \in Slots :
    /\ Done(r) /\ req[r].examAtIssue # Null /\ IsStudent(req[r].studentId)
    /\ Before(r).exists /\ Before(r).assignmentMode = "section"
    /\ Caller(r).sectionId[1] \notin Before(r).sections
    /\ Caller(r).departmentId[1] \in Before(r).departments
    /\ \/ req[r].op = "getExamById" /\ req[r].resp = "ok"
       \/ req[r].op = "getAvailableExams" /\ req[r].status = "listed"


\* C28: assignExam replaces, for each target kind its body gives (sectionIds,
\* departmentIds, studentIds), the whole target set by the given set, leaves
\* the kinds not given and, when not given, assignmentMode as they were, and
\* changes nothing else of the exam; when it fails, no kind is replaced.
C28_AssignReplacesGivenKinds ==
  \A r \in Slots :
    DoneOn(r, "assignExam") =>
      LET data == req[r].data
          old == Before(r)
      IN IF req[r].resp = "ok"
         THEN /\ exam.sections =
                   IF data.sectionIds # Null THEN data.sectionIds[1]
                   ELSE old.sections
              /\ exam.departments =
                   IF data.departmentIds # Null THEN data.departmentIds[1]
                   ELSE old.departments
              /\ exam.students =
                   IF data.studentIds # Null THEN data.studentIds[1]
                   ELSE old.students
              /\ exam.assignmentMode =
                   IF data.assignmentMode # Null THEN data.assignmentMode[1]
                   ELSE old.assignmentMode
              /\ [exam EXCEPT !.sections = {}, !.departments = {},
                    !.students = {}, !.assignmentMode = "all"]
                 = [old EXCEPT !.sections = {}, !.departments = {},
                      !.students = {}, !.assignmentMode = "all"]
         ELSE exam = old

\* the sections of an exam assigned also to a department were replaced and
\* the department stayed
C28_Witness ==
  \E r \in Slots :
    /\ DoneOn(r, "assignExam") /\ req[r].resp = "ok"
    /\ req[r].data.sectionIds = Some({"sec2"})
    /\ req[r].data.departmentIds = Null
    /\ Before(r).sections = {"sec1"} /\ Before(r).departments = {"dep1"}
    /\ exam.sections = {"sec2"} /\ exam.departments = {"dep1"}


\* C23: a successful startAttempt has created one answer row with isAnswered
\* false for every question the exam had when it was started, and no other
\* row of the attempt; the attempt is in status started and its maxScore is
\* the exam's totalMarks.
C23_StartCreatesBlankAnswers ==
  \A r \in Slots :
    DoneOn(r, "startAttempt") /\ req[r].resp = "ok" =>
      LET a == req[r].attemptId
      IN /\ a \in DOMAIN attempts
         /\ {k[2] : k \in RowsOf(a)} = Range(Before(r).questions)
         /\ Cardinality(RowsOf(a)) = Len(Before(r).questions)
         /\ \A k \in RowsOf(a) :
              ~answers[k].isAnswered /\ answers[k].selectedAnswer = Null
         /\ attempts[a].status = "started"
         /\ attempts[a].maxScore = Before(r).totalMarks

\* an attempt was started on an exam with questions
C23_Witness ==
  \E r \in Slots :
    /\ DoneOn(r, "startAttempt") /\ req[r].resp = "ok"
    /\ Before(r).questions # <<>>
    /\ RowsOf(req[r].attemptId) # {}


\* the JSON value of a selectedAnswer column: null, or the option id stored
StoredJson(selectedAnswer) ==
  IF selectedAnswer = Null THEN Json("null", "null")
  ELSE Json("string", selectedAnswer[1])

\* C24: after a successful saveAnswer whose body gives a value, falsy ones as
\* 0, false and "" included, the answer row of the question holds exactly
\* that value, and a successful resumeAttempt returns for every answer row of
\* the attempt the selectedAnswer the row holds: save then resume returns the
\* value sent.
C24_SaveThenResumeReturnsValue ==
  \A r \in Slots :
    /\ Done(r) /\ req[r].op = "saveAnswer" /\ req[r].resp = "ok"
       /\ req[r].body # Null =>
         LET key == <<req[r].attemptId, req[r].questionId>>
         IN key \in DOMAIN answers
            /\ StoredJson(answers[key].selectedAnswer) = req[r].body[1]
    /\ Done(r) /\ req[r].op = "resumeAttempt" /\ req[r].resp = "ok" =>
         \A i \in DOMAIN req[r].answersRead :
           LET row == req[r].answersRead[i]
           IN row.selectedAnswer
                = answers[<<req[r].attemptId, row.questionId>>].selectedAnswer

\* C25: with shuffleQuestions set, a resumeAttempt presents the questions of
\* an attempt in the order its startAttempt presented them.
C25_ResumeKeepsShuffledOrder ==
  \A r \in Slots :
    Done(r) /\ req[r].op = "resumeAttempt" /\ req[r].resp = "ok"
    /\ exam.shuffleQuestions =>
      req[r].presented = attempts[req[r].attemptId].presented


\* C26: every mutation of the exam leaves no exam-detail cache entry, so that
\* getExamById, which returns a cached entry as it is to a user who is no
\* student, never returns a view whose status or question set differs from
\* the stored exam: whenever no request is running, an entry in the cache has
\* the status and the questions of the stored exam, also after a mutation
\* ran between the read and the cache write of a getExamById.
C26_CacheNeverStale ==
  (\A r \in Slots : ~InFlight(r)) /\ cache # Null =>
    /\ exam.exists
    /\ cache[1].status = exam.status
    /\ cache[1].questions = ExamView(exam).questions


\* C27: the view getExamById returns, to a student or to any other user,
\* holds no correct-answer information: no question of it has a correctAnswer
\* field and no option of it an isCorrect field.
C27_ViewHidesCorrectAnswers ==
  \A r \in Slots :
    Done(r) /\ req[r].op = "getExamById" /\ req[r].resp = "ok" =>
      \A i \in DOMAIN req[r].exam[1].questions :
        LET question == req[r].exam[1].questions[i]
        IN /\ "correctAnswer" \notin DOMAIN question
           /\ \A j \in DOMAIN question.options :
                "isCorrect" \notin DOMAIN question.options[j]


\* C29: addQuestionsToExam with a question id that is unknown fails and
\* leaves the question set and totalMarks of the exam as they were; with ids
\* that are all known, repeated or not, it succeeds and every one of them is
\* a question of the exam.
C29_AddAllOrNothing ==
  \A r \in Slots :
    DoneOn(r, "addQuestionsToExam") =>
      IF Range(req[r].questionIds) \subseteq DOMAIN questions
      THEN /\ req[r].resp = "ok"
           /\ Range(req[r].questionIds) \subseteq Range(exam.questions)
      ELSE /\ req[r].resp # "ok"
           /\ exam.questions = Before(r).questions
           /\ exam.totalMarks = Before(r).totalMarks


\* C30: a startAttempt that fails (NotFound, BadRequest or Forbidden) changes
\* nothing: the step it fails at writes no attempt row, no answer row, no
\* exam status and no cache entry, and the request had created no attempt
\* before.
C30_FailedStartChangesNothing ==
  [][\A r \in Slots :
       req[r].op = "startAttempt" /\ InFlight(r) /\ req'[r].pc = "done"
       /\ req'[r].resp # "ok" =>
         /\ req'[r].resp \in {"NotFound", "BadRequest", "Forbidden"}
         /\ req[r].attemptId = 0
         /\ UNCHANGED <<exam, questions, attempts, answers, submitLog, cache,
                        attemptCache>>]_vars

\* a student with an attempt still running was refused a second one
C30_Witness ==
  \E r \in Slots :
    /\ Done(r) /\ req[r].op = "startAttempt" /\ req[r].resp = "BadRequest"
    /\ ActiveAttempts(req[r].studentId) # {}
    /\ exam.maxAttempts > AttemptCount(req[r].studentId)


\* the operations of ExamService that change an exam
Mutations ==
  {"updateExam", "deleteExam", "addQuestionsToExam", "removeQuestionsFromExam",
   "publishExam", "activateExam", "closeExam", "assignExam"}

\* C31: an educator mutates an exam only when the exam has no institution or
\* is of the educator's institution; an educator of another institution, or
\* of none while the exam has one, is refused with Forbidden and the exam is
\* as it was.
C31_EducatorOfOwnInstitutionOnly ==
  \A r \in Slots :
    Done(r) /\ req[r].op \in Mutations /\ req[r].examAtIssue # Null
    /\ Before(r).exists =>
      \/ Before(r).institutionId = Null
      \/ Before(r).institutionId = Educators[req[r].studentId].institutionId
      \/ req[r].resp = "Forbidden" /\ exam = Before(r)


\* what finalize reads of the answer rows: per attempt the rows with their
\* question, selectedAnswer and isAnswered
GradingInput == [a \in DOMAIN attempts |-> AnswersOf(a)]

\* C32: markForReview does not affect grading: a markForReview call, on any
\* question id, leaves the exam, the questions, and the rows finalize grades
\* with their selectedAnswer and isAnswered as they were, so that finalize
\* produces the totalScore, percentage, counts, grade and passed it would
\* have produced without the call.
C32_MarkLeavesGradingInput ==
  [][\A r \in Slots :
       req[r].op = "markForReview" /\ req[r].pc = "mark_upsert"
       /\ req'[r].pc = "done" =>
         /\ GradingInput' = GradingInput
         /\ UNCHANGED <<exam, questions, attempts>>]_vars

\* C37: every answer row of an attempt is of a question the exam had when
\* the attempt was started, and a finalized attempt has totalScore at most
\* maxScore and percentage at most 100.
C37_RowsOfExamQuestionsOnly ==
  /\ \A k \in DOMAIN answers :
       k[2] \in Range(attempts[k[1]].presented)
  /\ \A a \in DOMAIN attempts :
       attempts[a].status \in Finalized =>
         /\ attempts[a].totalScore <= attempts[a].maxScore
         /\ attempts[a].percentage[1] <= MaxPercentage


CorrectIds ==
  {questions["q1"].options[i].id :
     i \in {j \in 1..3 : questions["q1"].options[j].isCorrect}}

\* C35: for a multi-select question with options, an answer is graded
\* correct only when it is an array whose set of ids is the set of the ids
\* of the options flagged correct (so [a, a] is incorrect when the correct
\* options are a and b), and every array of distinct ids with that set is
\* graded correct, in any order.
C35_MultiSelectIsSetEquality ==
  gradeOut # "-" =>
    /\ gradeOut = "correct" =>
         gradeIn.isArray /\ Range(gradeIn.ids) = CorrectIds
    /\ gradeIn.isArray /\ Range(gradeIn.ids) = CorrectIds
       /\ Cardinality(Range(gradeIn.ids)) = Len(gradeIn.ids) =>
         gradeOut = "correct"

\* the requests issued so far are the ones in the slots, and each of them
\* is a question-set edit or a getExamById
OnlyQuestionEdits ==
  /\ \A r \in Slots :
       req[r].op \in {"none", "addQuestionsToExam", "removeQuestionsFromExam",
                      "getExamById"}
  /\ issued = Cardinality({r \in Slots : req[r].op # "none"})

\* C33: in a run of addQuestionsToExam, removeQuestionsFromExam and
\* getExamById requests only, once every request has returned the totalMarks
\* of the exam is the sum of the marks of its questions, and every exam
\* getExamById returns has as totalMarks the sum of the marks of the
\* questions it shows.
C33_QuestionEditsAtomic ==
  OnlyQuestionEdits =>
    /\ (\A r \in Slots : ~InFlight(r))
         => exam.totalMarks = SumQuestionMarks(Range(exam.questions))
    /\ \A r \in Slots :
         Done(r) /\ req[r].op = "getExamById" /\ req[r].resp = "ok"
           => req[r].exam[1].totalMarks
                = SumQuestionMarks({req[r].exam[1].questions[i].id :
                                      i \in DOMAIN req[r].exam[1].questions})

\* C36: no step changes the selectedAnswer, isAnswered, isCorrect or
\* marksAwarded of an answer row of an attempt that is submitted or
\* auto_submitted, or removes the row, and the totalScore of such an attempt
\* is max(0, sum of the marksAwarded of its rows).
C36_FinalizedResultImmutable ==
  /\ [][\A a \in DOMAIN attempts :
          attempts[a].status \in Finalized =>
            \A k \in RowsOf(a) :
              /\ k \in DOMAIN answers'
              /\ answers'[k].selectedAnswer = answers[k].selectedAnswer
              /\ answers'[k].isAnswered = answers[k].isAnswered
              /\ answers'[k].isCorrect = answers[k].isCorrect
              /\ answers'[k].marksAwarded = answers[k].marksAwarded]_vars
  /\ [](\A a \in DOMAIN attempts :
          attempts[a].status \in Finalized =>
            attempts[a].totalScore = Max(0, SumMarks(a, Len(QuestionIds))))

\* C38: the attemptNumbers of the attempts of a student on the exam are
\* pairwise distinct and are exactly 1..k, k being the number of these
\* attempts.
C38_AttemptNumbersAreOneToK ==
  \A s \in DOMAIN users :
    LET mine == {a \in DOMAIN attempts : attempts[a].studentId = s}
    IN {attempts[a].attemptNumber : a \in mine} = 1..Cardinality(mine)

\* C39: whenever no request is in flight and the exam has an attempt in
\* started or in_progress, the status of the exam is neither draft nor
\* published, and an updateExam or deleteExam that has returned was refused
\* and left the exam as it was.
C39_RunningAttemptLocksExam ==
  ((\A r \in Slots : ~InFlight(r))
     /\ \E a \in DOMAIN attempts : attempts[a].status \in Active)
    => /\ exam.status \notin {"draft", "published"}
       /\ \A r \in Slots :
            \A op \in {"updateExam", "deleteExam"} :
              DoneOn(r, op) => req[r].resp # "ok" /\ exam = Before(r)

====
